---- MODULE Spec2Model ----
(***************************************************************************)
(* A model of the granular cache map: a fixed array of RwLock-guarded      *)
(* optional values (lib.rs), a strategy behind one Mutex, the read/write   *)
(* protocol with its reload, the ReadRef/WriteRef guards, and the          *)
(* WriteBatch accumulator (write_batch.rs).                                *)
(*                                                                         *)
(* Strings are sequences of one-character strings; Option<V> is a sequence *)
(* of length 0 (None) or 1 (Some(v)).                                      *)
(***************************************************************************)
EXTENDS Integers, Sequences, FiniteSets, TLC

VARIABLES
    entries,    \* Cache.entries: slot index -> Option<Val>
    lock,       \* the RwLock of each slot: [w: held exclusively, r: shared holders, p: poisoned]
    strategy,   \* Cache.strategy: [locked: the Mutex is held, count: TestStrategy.count]
    pc,         \* per thread: the position inside the current call
    op,         \* per thread: the call in progress or just returned
    arg,        \* per thread: the key of that call
    ret,        \* per thread: what strategy.load returned to Cache::load, not yet consumed
    loads,      \* per thread: strategy.load invocations made by the current call
    snap,       \* per thread: the slot's contents as the call last saw them under its exclusive lock
    result,     \* per thread: what the call returned, until the caller takes it
    rrefs,      \* per thread: ReadRef guards the caller holds, per slot
    wrefs,      \* per thread: slots whose WriteRef the caller holds directly
    wb,         \* per thread: the caller owns a WriteBatch
    batch,      \* per thread: WriteBatch.entries, the keys whose WriteRef the batch holds
    drain,      \* per thread: the guards flush_all took out of the batch and has not delivered
    hist,       \* the completed calls and in-place modifications, in order
    recording   \* whether the run is observed, i.e. hist is written

cacheVars == <<entries, lock, strategy>>
callVars  == <<pc, op, arg, ret, loads, snap, result>>
guardVars == <<rrefs, wrefs, wb, batch, drain>>
obsVars   == <<hist, recording>>
vars == <<entries, lock, strategy, pc, op, arg, ret, loads, snap, result, rrefs, wrefs,
          wb, batch, drain, hist, recording>>

---------------------------------------------------------------------------
(* Bounds *)

MaxMods   == 1      \* "-mod" suffixes a value may accumulate
MaxCount  == 2      \* strategy.load invocations in a run
MaxGuards == 1      \* ReadRef guards one caller keeps at a time
MaxHist   == 4      \* recorded events in a run

Capacity == 4
Slots    == 0 .. (Capacity - 1)
Keys     == {1, 2, 5}
Threads  == {"t1", "t2"}
Errs     == {"E1", "E2"}

---------------------------------------------------------------------------
(* Strings and Option *)

None     == <<>>
Some(v)  == <<v>>
is_none(o) == o = None
unwrap(o)  == o[1]

Digit(d) ==
    CASE d = 0 -> "0" [] d = 1 -> "1" [] d = 2 -> "2" [] d = 3 -> "3" [] d = 4 -> "4"
      [] d = 5 -> "5" [] d = 6 -> "6" [] d = 7 -> "7" [] d = 8 -> "8" [] d = 9 -> "9"

RECURSIVE to_string(_)
to_string(n) == IF n < 10 THEN <<Digit(n)>> ELSE Append(to_string(n \div 10), Digit(n % 10))

starts_with(s, p) == Len(p) <= Len(s) /\ SubSeq(s, 1, Len(p)) = p

ModSuffix == <<"-", "m", "o", "d">>
push_str_mod(v) == v \o ModSuffix

RECURSIVE CountMods(_)
CountMods(v) ==
    IF Len(v) >= 4 /\ SubSeq(v, Len(v) - 3, Len(v)) = ModSuffix
    THEN 1 + CountMods(SubSeq(v, 1, Len(v) - 4))
    ELSE 0

---------------------------------------------------------------------------
(* The strategy of the tests *)

TestStrategy_load(k) ==
    CASE k = 1 -> <<"1", "o", "n", "e">>
      [] k = 2 -> <<"2", "t", "w", "o">>
      [] k = 3 -> <<"3", "t", "h", "r", "e", "e">>
      [] k = 4 -> <<"4", "f", "o", "u", "r">>
      [] k = 5 -> <<"5", "f", "i", "v", "e">>
      [] OTHER -> <<"u", "n", "k", "n", "o", "w", "n">>

match_kv_whole(k, v) == v # TestStrategy_load(k)
match_kv(k, v) == ~starts_with(v, to_string(k))

Ok(v)  == [ok |-> TRUE, val |-> Some(v), err |-> ""]
Err(e) == [ok |-> FALSE, val |-> None, err |-> e]
NoRet  == [ok |-> FALSE, val |-> None, err |-> ""]

\* CacheStrategy::load: a value for the key, or an error of the strategy
LoadOutcomes(k) == {Ok(TestStrategy_load(k))} \cup {Err(e) : e \in Errs}

---------------------------------------------------------------------------
(* The cache *)

hash(k) == k
key(k)  == hash(k) % Capacity

\* std RwLock: shared access excludes a writer, exclusive access excludes everyone
can_read(l)  == ~l.w
can_write_despite_readers(l) == ~l.w
can_write_always(l) == TRUE
can_write(l) == ~l.w /\ l.r = 0

\* std Mutex around the strategy
can_lock_strategy_unguarded(st) == TRUE
can_lock_strategy(st) == ~st.locked

\* the reload condition of read and write
needs_load_skip_empty(k, o) == IF is_none(o) THEN FALSE ELSE match_kv(k, unwrap(o))
needs_load_only_empty(k, o) == is_none(o)
needs_load_always(k, o) == TRUE
needs_load(k, o) == IF is_none(o) THEN TRUE ELSE match_kv(k, unwrap(o))

\* what opt.replace stores, and what the slot holds when load returned early
replaced_if_empty(o, v) == IF is_none(o) THEN v ELSE o
replaced(o, v) == v
kept_cleared(o) == None
kept(o) == o

\* the closures the callers of WriteBatch::write pass: push_str("-mod") or a plain look
apply_f(f, v) == IF f = "push_mod" THEN push_str_mod(v) ELSE v
Fs(v) == {"peek"} \cup (IF CountMods(v) < MaxMods THEN {"push_mod"} ELSE {})

NoResult == [kind |-> "none", err |-> ""]
\* the key of no call: a number that is not a key
NoKey == CHOOSE k \in 0 .. 9 : k \notin Keys

Constructed ==
    /\ entries = [s \in Slots |-> None]
    /\ lock = [s \in Slots |-> [w |-> FALSE, r |-> 0, p |-> FALSE]]
    /\ strategy = [locked |-> FALSE, count |-> 0]
    /\ pc = [t \in Threads |-> "idle"]
    /\ op = [t \in Threads |-> "none"]
    /\ arg = [t \in Threads |-> NoKey]
    /\ ret = [t \in Threads |-> NoRet]
    /\ loads = [t \in Threads |-> 0]
    /\ snap = [t \in Threads |-> None]
    /\ result = [t \in Threads |-> NoResult]
    /\ rrefs = [t \in Threads |-> [s \in Slots |-> 0]]
    /\ wrefs = [t \in Threads |-> {}]
    /\ wb = [t \in Threads |-> FALSE]
    /\ batch = [t \in Threads |-> {}]
    /\ drain = [t \in Threads |-> {}]
    /\ hist = <<>>

\* any number of threads share the cache
Init == Constructed /\ recording = FALSE

\* the calls do not overlap, and are recorded in order
InitSeq == Constructed /\ recording = TRUE

RECURSIVE SumOver(_, _)
SumOver(f, S) ==
    IF S = {} THEN 0
    ELSE LET x == CHOOSE y \in S : TRUE IN f[x] + SumOver(f, S \ {x})

Event(o, k, s, kind, v, n) ==
    [op |-> o, key |-> k, slot |-> s, kind |-> kind, val |-> v, loads |-> n,
     count |-> strategy.count]

Record(e) ==
    /\ hist' = IF recording THEN Append(hist, e) ELSE hist
    /\ UNCHANGED recording

\* the call of thread t returns to its caller
Returns(t, kind, e, v) ==
    /\ result' = [result EXCEPT ![t] = [kind |-> kind, err |-> e]]
    /\ Record(Event(op[t], arg[t], IF arg[t] = NoKey THEN -1 ELSE key(arg[t]), kind, v, loads[t]))
    /\ pc' = [pc EXCEPT ![t] = "returned"]
    /\ snap' = [snap EXCEPT ![t] = None]
    /\ ret' = [ret EXCEPT ![t] = NoRet]
    /\ UNCHANGED <<op, arg, loads>>

\* the slots thread t holds exclusively through the guards it owns
held_w(t) == wrefs[t] \cup {key(k) : k \in batch[t] \cup drain[t]}

\* the locks once thread t has unwound: its guards are dropped, and a write guard dropped
\* while panicking poisons its lock
unwound(t) ==
    [s \in Slots |-> [w |-> IF s \in held_w(t) THEN FALSE ELSE lock[s].w,
                      r |-> lock[s].r - rrefs[t][s],
                      p |-> lock[s].p \/ s \in held_w(t)]]

panics(t) ==
    /\ lock' = unwound(t)
    /\ rrefs' = [rrefs EXCEPT ![t] = [s \in Slots |-> 0]]
    /\ wrefs' = [wrefs EXCEPT ![t] = {}]
    /\ wb' = [wb EXCEPT ![t] = FALSE]
    /\ batch' = [batch EXCEPT ![t] = {}]
    /\ drain' = [drain EXCEPT ![t] = {}]
    /\ pc' = [pc EXCEPT ![t] = "panicked"]
    /\ op' = [op EXCEPT ![t] = "none"]
    /\ arg' = [arg EXCEPT ![t] = NoKey]
    /\ loads' = [loads EXCEPT ![t] = 0]
    /\ UNCHANGED <<entries, strategy, ret, snap, result, hist, recording>>

\* the threads inside read or write, each of which may still call the strategy once
InCall == {u \in Threads : pc[u] \notin {"idle", "returned", "flushing", "panicked"}}

\* the caller starts read(k), write(k), or WriteBatch::write(k, f) for a key not in the batch
call(t, o, k) ==
    /\ pc[t] = "idle"
    /\ Len(hist) < MaxHist
    /\ recording \/ strategy.count + Cardinality(InCall) < MaxCount
    /\ o = "read" => SumOver(rrefs[t], Slots) < MaxGuards
    /\ o = "batch_write" => wb[t] /\ k \notin batch[t]
    /\ pc' = [pc EXCEPT ![t] = IF o = "read" THEN "r_lock" ELSE "w_lock"]
    /\ op' = [op EXCEPT ![t] = o]
    /\ arg' = [arg EXCEPT ![t] = k]
    /\ UNCHANGED <<ret, loads, snap, result>>
    /\ UNCHANGED <<cacheVars, guardVars, obsVars>>

\* the caller takes the Result out of the call expression and goes on
take_result(t) ==
    /\ pc[t] = "returned"
    /\ pc' = [pc EXCEPT ![t] = "idle"]
    /\ op' = [op EXCEPT ![t] = "none"]
    /\ arg' = [arg EXCEPT ![t] = NoKey]
    /\ loads' = [loads EXCEPT ![t] = 0]
    /\ result' = [result EXCEPT ![t] = NoResult]
    /\ UNCHANGED <<ret, snap>>
    /\ UNCHANGED <<cacheVars, guardVars, obsVars>>

\* read: self.key(key).read().unwrap()
read_lock(t) ==
    LET s == key(arg[t]) IN
    /\ pc[t] = "r_lock"
    /\ can_read(lock[s])
    /\ ~lock[s].p
    /\ lock' = [lock EXCEPT ![s].r = @ + 1]
    /\ pc' = [pc EXCEPT ![t] = "r_check"]
    /\ UNCHANGED <<entries, strategy, op, arg, ret, loads, snap, result>>
    /\ UNCHANGED <<guardVars, obsVars>>

\* read: the value is there and is the key's: Ok(ReadRef(guard))
read_hit(t) ==
    LET s == key(arg[t]) IN
    /\ pc[t] = "r_check"
    /\ ~needs_load(arg[t], entries[s])
    /\ rrefs' = [rrefs EXCEPT ![t][s] = @ + 1]
    /\ Returns(t, "ok", "", entries[s])
    /\ UNCHANGED <<cacheVars, wrefs, wb, batch, drain>>

\* read: drop(guard) before the exclusive lock is asked for
read_miss_keeping(t) ==
    LET s == key(arg[t]) IN
    /\ pc[t] = "r_check"
    /\ needs_load(arg[t], entries[s])
    /\ pc' = [pc EXCEPT ![t] = "r_wlock"]
    /\ UNCHANGED <<entries, lock, strategy, op, arg, ret, loads, snap, result>>
    /\ UNCHANGED <<guardVars, obsVars>>

read_miss(t) ==
    LET s == key(arg[t]) IN
    /\ pc[t] = "r_check"
    /\ needs_load(arg[t], entries[s])
    /\ lock' = [lock EXCEPT ![s].r = @ - 1]
    /\ pc' = [pc EXCEPT ![t] = "r_wlock"]
    /\ UNCHANGED <<entries, strategy, op, arg, ret, loads, snap, result>>
    /\ UNCHANGED <<guardVars, obsVars>>

\* read: self.key(key).write().unwrap(), the temporary guard handed to load
read_wlock(t) ==
    LET s == key(arg[t]) IN
    /\ pc[t] = "r_wlock"
    /\ can_write(lock[s])
    /\ ~lock[s].p
    /\ lock' = [lock EXCEPT ![s].w = TRUE]
    /\ snap' = [snap EXCEPT ![t] = entries[s]]
    /\ pc' = [pc EXCEPT ![t] = "load_lock"]
    /\ UNCHANGED <<entries, strategy, op, arg, ret, loads, result>>
    /\ UNCHANGED <<guardVars, obsVars>>

\* read: the shared lock taken again after the reload: Ok(ReadRef(guard))
read_relock(t) ==
    LET s == key(arg[t]) IN
    /\ pc[t] = "r_relock"
    /\ can_read(lock[s])
    /\ ~lock[s].p
    /\ lock' = [lock EXCEPT ![s].r = @ + 1]
    /\ rrefs' = [rrefs EXCEPT ![t][s] = @ + 1]
    /\ Returns(t, "ok", "", entries[s])
    /\ UNCHANGED <<entries, strategy, wrefs, wb, batch, drain>>

\* write: self.key(key).write().unwrap()
write_lock(t) ==
    LET s == key(arg[t]) IN
    /\ pc[t] = "w_lock"
    /\ can_write(lock[s])
    /\ ~lock[s].p
    /\ lock' = [lock EXCEPT ![s].w = TRUE]
    /\ snap' = [snap EXCEPT ![t] = entries[s]]
    /\ pc' = [pc EXCEPT ![t] = "w_check"]
    /\ UNCHANGED <<entries, strategy, op, arg, ret, loads, result>>
    /\ UNCHANGED <<guardVars, obsVars>>

\* the lock is handed over poisoned: unwrap() panics
lock_poisoned(t) ==
    LET s == key(arg[t]) IN
    /\ pc[t] \in {"r_lock", "r_wlock", "r_relock", "w_lock"}
    /\ lock[s].p
    /\ IF pc[t] \in {"r_lock", "r_relock"} THEN can_read(lock[s]) ELSE can_write(lock[s])
    /\ panics(t)

\* write returns Ok(WriteRef(guard)) over value v: to the caller, or into the batch, where
\* WriteBatch::write inserts the guard and applies f
write_returns(t, s, v) ==
    IF op[t] = "write"
    THEN /\ entries' = [entries EXCEPT ![s] = v]
         /\ wrefs' = [wrefs EXCEPT ![t] = @ \cup {s}]
         /\ Returns(t, "ok", "", v)
         /\ UNCHANGED <<rrefs, wb, batch, drain>>
    ELSE \E f \in Fs(unwrap(v)) :
            /\ entries' = [entries EXCEPT ![s] = Some(apply_f(f, unwrap(v)))]
            /\ batch' = [batch EXCEPT ![t] = @ \cup {arg[t]}]
            /\ Returns(t, "ok", "", entries'[s])
            /\ UNCHANGED <<rrefs, wrefs, wb, drain>>

\* write: the value is there and is the key's
write_hit(t) ==
    LET s == key(arg[t]) IN
    /\ pc[t] = "w_check"
    /\ ~needs_load(arg[t], entries[s])
    /\ write_returns(t, s, entries[s])
    /\ UNCHANGED <<lock, strategy>>

\* write: the reload, under the guard already held
write_miss(t) ==
    LET s == key(arg[t]) IN
    /\ pc[t] = "w_check"
    /\ needs_load(arg[t], entries[s])
    /\ pc' = [pc EXCEPT ![t] = "load_lock"]
    /\ UNCHANGED <<op, arg, ret, loads, snap, result>>
    /\ UNCHANGED <<cacheVars, guardVars, obsVars>>

\* load: self.strategy.lock().unwrap()
load_lock(t) ==
    /\ pc[t] = "load_lock"
    /\ can_lock_strategy(strategy)
    /\ strategy' = [strategy EXCEPT !.locked = TRUE]
    /\ pc' = [pc EXCEPT ![t] = "in_load"]
    /\ UNCHANGED <<entries, lock, op, arg, ret, loads, snap, result>>
    /\ UNCHANGED <<guardVars, obsVars>>

\* load: load_guard.load(key) returns; load_guard goes out of scope
load_call_holding(t) ==
    /\ pc[t] = "in_load"
    /\ \E r \in LoadOutcomes(arg[t]) :
          ret' = [ret EXCEPT ![t] = r]
    /\ strategy' = [strategy EXCEPT !.count = @ + 1]
    /\ loads' = [loads EXCEPT ![t] = @ + 1]
    /\ pc' = [pc EXCEPT ![t] = "loaded"]
    /\ UNCHANGED <<entries, lock, op, arg, snap, result>>
    /\ UNCHANGED <<guardVars, obsVars>>

load_call(t) ==
    /\ pc[t] = "in_load"
    /\ \E r \in LoadOutcomes(arg[t]) :
          ret' = [ret EXCEPT ![t] = r]
    /\ strategy' = [locked |-> FALSE, count |-> strategy.count + 1]
    /\ loads' = [loads EXCEPT ![t] = @ + 1]
    /\ pc' = [pc EXCEPT ![t] = "loaded"]
    /\ UNCHANGED <<entries, lock, op, arg, snap, result>>
    /\ UNCHANGED <<guardVars, obsVars>>

\* load: opt.replace(..), Ok(()); read drops its temporary guard, write returns its guard
load_replace(t) ==
    LET s == key(arg[t]) IN
    /\ pc[t] = "loaded"
    /\ ret[t].ok
    /\ IF op[t] = "read"
       THEN /\ entries' = [entries EXCEPT ![s] = replaced(@, ret[t].val)]
            /\ lock' = [lock EXCEPT ![s].w = FALSE]
            /\ pc' = [pc EXCEPT ![t] = "r_relock"]
            /\ snap' = [snap EXCEPT ![t] = entries'[s]]
            /\ ret' = [ret EXCEPT ![t] = NoRet]
            /\ UNCHANGED <<op, arg, loads, result>>
            /\ UNCHANGED <<guardVars, obsVars>>
       ELSE /\ write_returns(t, s, replaced(entries[s], ret[t].val))
            /\ UNCHANGED lock
    /\ UNCHANGED strategy

\* load: the `?` on the strategy's error: the slot guard is dropped, Err(e) returned
load_fail_holding(t) ==
    LET s == key(arg[t]) IN
    /\ pc[t] = "loaded"
    /\ ~ret[t].ok
    /\ entries' = [entries EXCEPT ![s] = kept(@)]
    /\ Returns(t, "err", ret[t].err, None)
    /\ UNCHANGED <<lock, strategy, guardVars>>

load_fail(t) ==
    LET s == key(arg[t]) IN
    /\ pc[t] = "loaded"
    /\ ~ret[t].ok
    /\ entries' = [entries EXCEPT ![s] = kept(@)]
    /\ lock' = [lock EXCEPT ![s].w = FALSE]
    /\ Returns(t, "err", ret[t].err, None)
    /\ UNCHANGED <<strategy, guardVars>>

\* a ReadRef goes out of scope
drop_read(t, s) ==
    /\ pc[t] = "idle"
    /\ rrefs[t][s] > 0
    /\ rrefs' = [rrefs EXCEPT ![t][s] = @ - 1]
    /\ lock' = [lock EXCEPT ![s].r = @ - 1]
    /\ UNCHANGED <<entries, strategy, wrefs, wb, batch, drain>>
    /\ UNCHANGED <<callVars, obsVars>>

\* a WriteRef goes out of scope
drop_write_leaking(t, s) ==
    /\ pc[t] = "idle"
    /\ s \in wrefs[t]
    /\ wrefs' = [wrefs EXCEPT ![t] = @ \ {s}]
    /\ UNCHANGED <<entries, lock, strategy, rrefs, wb, batch, drain>>
    /\ UNCHANGED <<callVars, obsVars>>

drop_write(t, s) ==
    /\ pc[t] = "idle"
    /\ s \in wrefs[t]
    /\ wrefs' = [wrefs EXCEPT ![t] = @ \ {s}]
    /\ lock' = [lock EXCEPT ![s].w = FALSE]
    /\ UNCHANGED <<entries, strategy, rrefs, wb, batch, drain>>
    /\ UNCHANGED <<callVars, obsVars>>

\* the caller modifies the value in place through its WriteRef: data.push_str("-mod")
deref_mut(t, s) ==
    /\ pc[t] = "idle"
    /\ s \in wrefs[t]
    /\ Len(hist) < MaxHist
    /\ CountMods(unwrap(entries[s])) < MaxMods
    /\ entries' = [entries EXCEPT ![s] = Some(push_str_mod(unwrap(@)))]
    /\ Record(Event("mutate", NoKey, s, "ok", entries'[s], 0))
    /\ UNCHANGED <<lock, strategy>>
    /\ UNCHANGED <<callVars, guardVars>>

---------------------------------------------------------------------------
(* The write batch *)

\* Cache::write_batch: WriteBatch::new(self)
write_batch(t) ==
    /\ pc[t] = "idle"
    /\ ~wb[t]
    /\ wb' = [wb EXCEPT ![t] = TRUE]
    /\ UNCHANGED <<rrefs, wrefs, batch, drain>>
    /\ UNCHANGED <<cacheVars, callVars, obsVars>>

\* WriteBatch::write on a key the batch holds: f on the guard's value
batch_write_occupied_fresh(t, k) ==
    LET s == key(k) IN
    /\ pc[t] = "idle"
    /\ wb[t]
    /\ k \in batch[t]
    /\ Len(hist) < MaxHist
    /\ \E f \in Fs(TestStrategy_load(k)) :
          entries' = [entries EXCEPT ![s] = Some(apply_f(f, TestStrategy_load(k)))]
    /\ strategy' = [strategy EXCEPT !.count = @ + 1]
    /\ Record(Event("batch_write", k, s, "ok", entries'[s], 1))
    /\ UNCHANGED lock
    /\ UNCHANGED <<callVars, guardVars>>

batch_write_occupied(t, k) ==
    LET s == key(k) IN
    /\ pc[t] = "idle"
    /\ wb[t]
    /\ k \in batch[t]
    /\ Len(hist) < MaxHist
    /\ \E f \in Fs(unwrap(entries[s])) :
          entries' = [entries EXCEPT ![s] = Some(apply_f(f, unwrap(@)))]
    /\ Record(Event("batch_write", k, s, "ok", entries'[s], 0))
    /\ UNCHANGED <<lock, strategy>>
    /\ UNCHANGED <<callVars, guardVars>>

\* flush_all: mem::take(&mut self.entries).into_values()
flush_all(t) ==
    /\ pc[t] = "idle"
    /\ wb[t]
    /\ Len(hist) < MaxHist
    /\ drain' = [drain EXCEPT ![t] = batch[t]]
    /\ batch' = [batch EXCEPT ![t] = {}]
    /\ pc' = [pc EXCEPT ![t] = "flushing"]
    /\ op' = [op EXCEPT ![t] = "flush_all"]
    /\ UNCHANGED <<arg, ret, loads, snap, result>>
    /\ UNCHANGED <<rrefs, wrefs, wb>>
    /\ UNCHANGED <<cacheVars, obsVars>>

\* flush_all: f(entry) returns Ok(()); the guard handed to the sink is gone
flush_sink_ok(t, k) ==
    /\ pc[t] = "flushing"
    /\ k \in drain[t]
    /\ drain' = [drain EXCEPT ![t] = @ \ {k}]
    /\ lock' = [lock EXCEPT ![key(k)].w = FALSE]
    /\ Record(Event("sink", k, key(k), "ok", entries[key(k)], 0))
    /\ UNCHANGED <<entries, strategy, rrefs, wrefs, wb, batch>>
    /\ UNCHANGED callVars

\* flush_all: f(entry)? returns early: the iterator and the batch are dropped
flush_sink_err_leaking(t, k, e) ==
    /\ pc[t] = "flushing"
    /\ k \in drain[t]
    /\ drain' = [drain EXCEPT ![t] = {}]
    /\ lock' = [lock EXCEPT ![key(k)].w = FALSE]
    /\ wb' = [wb EXCEPT ![t] = FALSE]
    /\ Returns(t, "err", e, entries[key(k)])
    /\ UNCHANGED <<entries, strategy, rrefs, wrefs, batch>>

flush_sink_err(t, k, e) ==
    /\ pc[t] = "flushing"
    /\ k \in drain[t]
    /\ drain' = [drain EXCEPT ![t] = {}]
    /\ lock' = [s \in Slots |->
                  IF s \in {key(j) : j \in drain[t]} THEN [lock[s] EXCEPT !.w = FALSE]
                  ELSE lock[s]]
    /\ wb' = [wb EXCEPT ![t] = FALSE]
    /\ Returns(t, "err", e, entries[key(k)])
    /\ UNCHANGED <<entries, strategy, rrefs, wrefs, batch>>

\* flush_all: every guard delivered: Ok(()); the batch is dropped empty
flush_done_early(t) ==
    /\ pc[t] = "flushing"
    /\ drain' = [drain EXCEPT ![t] = {}]
    /\ lock' = [s \in Slots |->
                  IF s \in {key(j) : j \in drain[t]} THEN [lock[s] EXCEPT !.w = FALSE]
                  ELSE lock[s]]
    /\ wb' = [wb EXCEPT ![t] = FALSE]
    /\ Returns(t, "ok", "", None)
    /\ UNCHANGED <<entries, strategy, rrefs, wrefs, batch>>

flush_done(t) ==
    /\ pc[t] = "flushing"
    /\ drain[t] = {}
    /\ wb' = [wb EXCEPT ![t] = FALSE]
    /\ Returns(t, "ok", "", None)
    /\ UNCHANGED <<cacheVars, rrefs, wrefs, batch, drain>>

\* Drop for WriteBatch: panics when entries are left
batch_drop_silent(t) ==
    /\ pc[t] = "idle"
    /\ wb[t]
    /\ wb' = [wb EXCEPT ![t] = FALSE]
    /\ batch' = [batch EXCEPT ![t] = {}]
    /\ lock' = [s \in Slots |->
                  IF s \in {key(j) : j \in batch[t]} THEN [lock[s] EXCEPT !.w = FALSE]
                  ELSE lock[s]]
    /\ UNCHANGED <<entries, strategy, rrefs, wrefs, drain>>
    /\ UNCHANGED <<callVars, obsVars>>

batch_drop(t) ==
    /\ pc[t] = "idle"
    /\ wb[t]
    /\ IF batch[t] # {}
       THEN panics(t)
       ELSE /\ wb' = [wb EXCEPT ![t] = FALSE]
            /\ UNCHANGED <<rrefs, wrefs, batch, drain>>
            /\ UNCHANGED <<cacheVars, callVars, obsVars>>

---------------------------------------------------------------------------
(* The specifications *)

Step(t) ==
    \/ \E k \in Keys : call(t, "read", k)
    \/ \E k \in Keys : call(t, "write", k)
    \/ \E k \in Keys : call(t, "batch_write", k)
    \/ take_result(t)
    \/ read_lock(t)
    \/ read_hit(t)
    \/ read_miss(t)
    \/ read_wlock(t)
    \/ read_relock(t)
    \/ write_lock(t)
    \/ lock_poisoned(t)
    \/ write_hit(t)
    \/ write_miss(t)
    \/ load_lock(t)
    \/ load_call(t)
    \/ load_replace(t)
    \/ load_fail(t)
    \/ \E s \in Slots : drop_read(t, s)
    \/ \E s \in Slots : drop_write(t, s)
    \/ \E s \in Slots : deref_mut(t, s)
    \/ write_batch(t)
    \/ \E k \in Keys : batch_write_occupied(t, k)
    \/ flush_all(t)
    \/ \E k \in Keys : flush_sink_ok(t, k)
    \/ \E k \in Keys, e \in Errs : flush_sink_err(t, k, e)
    \/ flush_done(t)
    \/ batch_drop(t)

Next == \E t \in Threads : Step(t)

Spec == Init /\ [][Next]_vars

\* one caller using read, write and the guards they return, one call after the other
SeqStep(t) ==
    \/ \E k \in Keys : call(t, "read", k)
    \/ \E k \in Keys : call(t, "write", k)
    \/ take_result(t)
    \/ read_lock(t)
    \/ read_hit(t)
    \/ read_miss(t)
    \/ read_wlock(t)
    \/ read_relock(t)
    \/ write_lock(t)
    \/ write_hit(t)
    \/ write_miss(t)
    \/ load_lock(t)
    \/ load_call(t)
    \/ load_replace(t)
    \/ load_fail(t)
    \/ \E s \in Slots : drop_read(t, s)
    \/ \E s \in Slots : drop_write(t, s)
    \/ \E s \in Slots : deref_mut(t, s)

NextSeq == SeqStep("t1")

SpecSeq == InitSeq /\ [][NextSeq]_vars

\* one caller using a WriteBatch, and read, one call after the other
BatchStep(t) ==
    \/ \E k \in Keys : call(t, "read", k)
    \/ \E k \in Keys : call(t, "batch_write", k)
    \/ take_result(t)
    \/ read_lock(t)
    \/ read_hit(t)
    \/ read_miss(t)
    \/ read_wlock(t)
    \/ read_relock(t)
    \/ write_lock(t)
    \/ write_hit(t)
    \/ write_miss(t)
    \/ load_lock(t)
    \/ load_call(t)
    \/ load_replace(t)
    \/ load_fail(t)
    \/ \E s \in Slots : drop_read(t, s)
    \/ write_batch(t)
    \/ \E k \in Keys : batch_write_occupied(t, k)
    \/ flush_all(t)
    \/ \E k \in Keys : flush_sink_ok(t, k)
    \/ \E k \in Keys, e \in Errs : flush_sink_err(t, k, e)
    \/ flush_done(t)
    \/ batch_drop(t)

NextBatch == BatchStep("t1")

SpecBatch == InitSeq /\ [][NextBatch]_vars

\* callers using write and the guards it returns, their calls overlapping, for a key and
\* a key that collides with it
CollidingKeys == {k \in Keys : \E j \in Keys : j # k /\ key(j) = key(k)}

WriteStep(t) ==
    \/ \E k \in CollidingKeys : call(t, "write", k)
    \/ take_result(t)
    \/ write_lock(t)
    \/ write_hit(t)
    \/ write_miss(t)
    \/ load_lock(t)
    \/ load_call(t)
    \/ load_replace(t)
    \/ load_fail(t)
    \/ \E s \in Slots : drop_write(t, s)
    \/ \E s \in Slots : deref_mut(t, s)

NextWrites == \E t \in Threads : WriteStep(t)

SpecWrites == InitSeq /\ [][NextWrites]_vars

\* the caller owns no guard
holds_nothing(t) ==
    /\ \A s \in Slots : rrefs[t][s] = 0
    /\ wrefs[t] = {}
    /\ batch[t] = {}
    /\ drain[t] = {}

\* what a caller does once its call is made: the call's own steps, taking the result,
\* and dropping the guard
Proceeds(t) ==
    \/ take_result(t)
    \/ read_lock(t)
    \/ read_hit(t)
    \/ read_miss(t)
    \/ read_wlock(t)
    \/ read_relock(t)
    \/ write_lock(t)
    \/ write_hit(t)
    \/ write_miss(t)
    \/ load_lock(t)
    \/ load_call(t)
    \/ load_replace(t)
    \/ load_fail(t)
    \/ \E s \in Slots : drop_read(t, s)
    \/ \E s \in Slots : drop_write(t, s)

\* callers that call read and write only while they own no guard
FreeStep(t) ==
    \/ \E k \in Keys : holds_nothing(t) /\ call(t, "read", k)
    \/ \E k \in Keys : holds_nothing(t) /\ call(t, "write", k)
    \/ \E s \in Slots : deref_mut(t, s)
    \/ Proceeds(t)

NextFree == \E t \in Threads : FreeStep(t)

SpecFree == Init /\ [][NextFree]_vars

---------------------------------------------------------------------------
(* The guards in existence *)

\* the guard a call holds in a local variable while it runs
LocalR(t, s) == pc[t] = "r_check" /\ key(arg[t]) = s
LocalW(t, s) == pc[t] \in {"w_check", "load_lock", "in_load", "loaded"} /\ key(arg[t]) = s

ReadGuardsOf(t, s)  == rrefs[t][s] + (IF LocalR(t, s) THEN 1 ELSE 0)
WriteGuardsOf(t, s) ==
    (IF s \in wrefs[t] THEN 1 ELSE 0)
    + Cardinality({k \in batch[t] : key(k) = s})
    + Cardinality({k \in drain[t] : key(k) = s})
    + (IF LocalW(t, s) THEN 1 ELSE 0)

ReadGuards(s)  == SumOver([t \in Threads |-> ReadGuardsOf(t, s)], Threads)
WriteGuards(s) == SumOver([t \in Threads |-> WriteGuardsOf(t, s)], Threads)

\* the value belongs to the key: the predicate of the reload condition does not fire
conforms(k, v) == ~match_kv(k, v)

Returned(t, o, kind) == pc[t] = "returned" /\ op[t] = o /\ result[t].kind = kind

---------------------------------------------------------------------------
(* Claims *)

\* C1: on every slot at most one write guard exists, and a write guard never coexists
\* with a read guard; read guards may coexist. Guards are counted per owner (callers,
\* batches, a flush in progress, calls in progress), under every interleaving.
C1_GuardExclusion ==
    \A s \in Slots :
        /\ WriteGuards(s) <= 1
        /\ WriteGuards(s) = 1 => ReadGuards(s) = 0

\* two read guards of two callers on one slot, while a batch holds a write guard elsewhere
C1_Witness ==
    /\ \E s \in Slots : ReadGuards(s) >= 2
    /\ \E t \in Threads : batch[t] # {}

\* C2: at most one strategy.load runs at any time, whatever the slots, and it runs
\* while its caller, and nobody else, holds the target slot's lock exclusively.
C2_LoadSerialized ==
    /\ Cardinality({t \in Threads : pc[t] = "in_load"}) <= 1
    /\ \A t \in Threads :
          pc[t] = "in_load" =>
              LET s == key(arg[t]) IN
              /\ strategy.locked
              /\ lock[s].w
              /\ lock[s].r = 0
              /\ \A u \in Threads \ {t} : WriteGuardsOf(u, s) = 0 /\ ReadGuardsOf(u, s) = 0

\* one load runs while a call on another slot waits for the strategy
C2_Witness ==
    \E t, u \in Threads :
        /\ pc[t] = "in_load"
        /\ pc[u] = "load_lock"
        /\ key(arg[t]) # key(arg[u])

\* C3: when strategy.load fails inside read or write, the call returns the strategy's
\* error, no slot changes, the target slot holds what it held when the call locked it
\* exclusively, and the call has invoked load exactly once.
C3_LoadFailure ==
    [][\A t \in Threads :
          ( /\ pc[t] # "returned"
            /\ pc'[t] = "returned"
            /\ op[t] \in {"read", "write"}
            /\ result'[t].kind = "err" )
          => /\ ~ret[t].ok
             /\ ret[t].err \in Errs
             /\ result'[t].err = ret[t].err
             /\ entries' = entries
             /\ entries'[key(arg[t])] = snap[t]
             /\ loads'[t] = 1]_vars

\* a failed read over a slot that keeps the value it had
C3_Witness ==
    \E t \in Threads :
        /\ Returned(t, "read", "err")
        /\ result[t].err \in Errs
        /\ entries[key(arg[t])] # None

\* C4: a slot under a returned guard is never empty, and a populated slot never
\* becomes empty again.
C4_NeverEmpty ==
    /\ [](\A s \in Slots :
            (\E t \in Threads : rrefs[t][s] > 0 \/ s \in held_w(t)) => entries[s] # None)
    /\ [][\A s \in Slots : entries[s] # None => entries'[s] # None]_vars

\* a read guard is held while a caller with a colliding key waits to overwrite the slot
C4_Witness ==
    \E t, u \in Threads :
        /\ Returned(t, "read", "ok")
        /\ rrefs[t][key(arg[t])] > 0
        /\ pc[u] = "r_wlock"
        /\ key(arg[u]) = key(arg[t])
        /\ arg[u] # arg[t]

\* every successful load(k) yields a value that conforms to k
LoadConforms(k) == conforms(k, TestStrategy_load(k))

\* C5: when write(K) returns a guard, the value under it is there and conforms to K.
C5_WriteConforms ==
    \A t \in Threads :
        (Returned(t, "write", "ok") /\ LoadConforms(arg[t]))
        => /\ entries[key(arg[t])] # None
           /\ conforms(arg[t], unwrap(entries[key(arg[t])]))

\* write(K) has reloaded the slot while a reader of a colliding key, which had loaded
\* its own value before, waits to take the shared lock again
C5_Witness ==
    \E t, u \in Threads :
        /\ Returned(t, "write", "ok")
        /\ loads[t] = 1
        /\ pc[u] = "r_relock"
        /\ key(arg[u]) = key(arg[t])
        /\ arg[u] # arg[t]

\* C6 as stated: when read(K) returns a guard, the value under it conforms to K, also
\* when callers of a colliding key run in the window between the reload and the return.
C6_ReadConformsAlways ==
    \A t \in Threads :
        (Returned(t, "read", "ok") /\ LoadConforms(arg[t]))
        => /\ entries[key(arg[t])] # None
           /\ conforms(arg[t], unwrap(entries[key(arg[t])]))

\* C6 amended: when read(K) returns a guard the slot is not empty, and its value conforms
\* to K, unless read reloaded and, between its release of the exclusive lock and its
\* return, another caller replaced what it had stored by the value of a colliding key.
C6_ReadConforms ==
    [][\A t \in Threads :
          ( /\ pc[t] # "returned"
            /\ pc'[t] = "returned"
            /\ op[t] = "read"
            /\ result'[t].kind = "ok"
            /\ LoadConforms(arg[t]) )
          => LET s == key(arg[t]) IN
             /\ entries'[s] # None
             /\ \/ conforms(arg[t], unwrap(entries'[s]))
                \/ /\ loads[t] = 1
                   /\ entries[s] # snap[t]
                   /\ \E k \in Keys : /\ k # arg[t]
                                      /\ key(k) = s
                                      /\ conforms(k, unwrap(entries'[s]))]_vars

\* read(K) has reloaded and returned its own value while a caller of a colliding key
\* waits for the slot
C6_Witness ==
    \E t, u \in Threads :
        /\ Returned(t, "read", "ok")
        /\ loads[t] = 1
        /\ conforms(arg[t], unwrap(entries[key(arg[t])]))
        /\ pc[u] \in {"r_lock", "r_wlock", "w_lock"}
        /\ key(arg[u]) = key(arg[t])
        /\ arg[u] # arg[t]

---------------------------------------------------------------------------
(* Claims about runs of one caller, read from the record of its calls *)

IsCall(e) == e.op \in {"read", "write"}

Latest(J) == CHOOSE j \in J : \A i \in J : i <= j

\* the key whose value the successful calls before event i left in slot s
SlotKey(i, s) ==
    LET J == {j \in 1 .. (i - 1) : IsCall(hist[j]) /\ hist[j].slot = s /\ hist[j].kind = "ok"}
    IN  IF J = {} THEN NoKey ELSE hist[Latest(J)].key

\* TestStrategy.count when event i began
CountBefore(i) == IF i = 1 THEN 0 ELSE hist[i - 1].count

\* C7: reads of one key K on a slot that was empty, with nothing else touching the slot,
\* load once in total, on the first call, and every call returns the strategy's value.
C7_ReadsLoadOnce ==
    \A i \in 1 .. Len(hist) :
        LET e == hist[i]
            prior == {j \in 1 .. (i - 1) : hist[j].slot = e.slot}
        IN  ( /\ e.op = "read"
              /\ e.kind = "ok"
              /\ \A j \in prior : /\ hist[j].op = "read"
                                  /\ hist[j].key = e.key
                                  /\ hist[j].kind = "ok" )
            => /\ e.val = Some(TestStrategy_load(e.key))
               /\ e.loads = (IF prior = {} THEN 1 ELSE 0)
               /\ e.count = CountBefore(i) + e.loads
               /\ Cardinality({j \in prior \cup {i} : hist[j].loads > 0}) = 1

\* three reads of one key in a row
C7_Witness ==
    /\ Len(hist) >= 3
    /\ \A i \in 1 .. 3 : hist[i].op = "read" /\ hist[i].key = hist[1].key /\ hist[i].kind = "ok"

\* C8: a successful call for a key that collides with the key cached in its slot loads
\* exactly once and returns the value of its own key; read(1), read(1), read(5), read(1)
\* leaves the load count at 1, 1, 2, 3.
C8_CollisionReloads ==
    /\ \A i \in 1 .. Len(hist) :
          LET e == hist[i] IN
          ( /\ IsCall(e)
            /\ e.kind = "ok"
            /\ SlotKey(i, e.slot) # NoKey
            /\ SlotKey(i, e.slot) # e.key )
          => /\ e.loads = 1
             /\ e.count = CountBefore(i) + 1
             /\ e.val = Some(TestStrategy_load(e.key))
             /\ conforms(e.key, unwrap(e.val))
    /\ ( /\ Len(hist) >= 4
         /\ \A i \in 1 .. 4 : hist[i].op = "read" /\ hist[i].kind = "ok"
         /\ [i \in 1 .. 4 |-> hist[i].key] = <<1, 1, 5, 1>> )
       => /\ [i \in 1 .. 4 |-> hist[i].count] = <<1, 1, 2, 3>>
          /\ [i \in 1 .. 4 |-> hist[i].val] =
                <<Some(TestStrategy_load(1)), Some(TestStrategy_load(1)),
                  Some(TestStrategy_load(5)), Some(TestStrategy_load(1))>>

\* the run of test_collision
C8_Witness ==
    /\ Len(hist) = 4
    /\ \A i \in 1 .. 4 : hist[i].op = "read" /\ hist[i].kind = "ok"
    /\ [i \in 1 .. 4 |-> hist[i].key] = <<1, 1, 5, 1>>

\* C9: a read(K) after a modification made through the guard of write(K), with no
\* successful call of a colliding key in between, returns the modified value and loads
\* nothing; a write(K) on a slot that caches K loads nothing either.
C9_WriteVisible ==
    \A i \in 1 .. Len(hist) :
        LET e == hist[i]
            M == {j \in 1 .. (i - 1) : hist[j].op = "mutate" /\ hist[j].slot = e.slot}
        IN  /\ ( /\ e.op = "read"
                 /\ e.kind = "ok"
                 /\ M # {}
                 /\ SlotKey(Latest(M), e.slot) = e.key
                 /\ \A j \in (Latest(M) + 1) .. (i - 1) :
                       (IsCall(hist[j]) /\ hist[j].slot = e.slot /\ hist[j].kind = "ok")
                       => hist[j].key = e.key )
               => /\ e.loads = 0
                  /\ e.count = CountBefore(i)
                  /\ e.val = hist[Latest(M)].val
            /\ ( /\ e.op = "write"
                 /\ e.kind = "ok"
                 /\ SlotKey(i, e.slot) = e.key )
               => /\ e.loads = 0
                  /\ e.count = CountBefore(i)

\* write(K) on a cached K, a modification through its guard, then read(K)
C9_Witness ==
    \E i \in 1 .. Len(hist) :
        /\ i >= 4
        /\ hist[i].op = "read" /\ hist[i].kind = "ok"
        /\ hist[i - 1].op = "mutate" /\ hist[i - 1].slot = hist[i].slot
        /\ hist[i - 2].op = "write" /\ hist[i - 2].key = hist[i].key /\ hist[i - 2].loads = 0
        /\ hist[i].val = hist[i - 1].val
        /\ hist[i].val # Some(TestStrategy_load(hist[i].key))

---------------------------------------------------------------------------

\* C10: a write(K2) is held up only by guards on K2's own slot and by a load in progress,
\* never by a write guard on another slot, and its steps change no other slot (a call
\* that panics on a poisoned slot does not return, and is not one of these steps).
C10_DisjointWrites ==
    /\ [](\A t \in Threads :
            LET s == key(arg[t]) IN
            ( /\ op[t] = "write"
              /\ pc[t] = "w_lock"
              /\ ~lock[s].p
              /\ ReadGuards(s) = 0
              /\ WriteGuards(s) = 0 )
            => ENABLED write_lock(t))
    /\ [](\A t \in Threads :
            ( /\ op[t] = "write"
              /\ pc[t] = "load_lock"
              /\ \A u \in Threads : pc[u] # "in_load" )
            => ENABLED load_lock(t))
    /\ [][\A t \in Threads :
            (op[t] = "write" /\ pc[t] # "returned" /\ pc'[t] \notin {pc[t], "panicked"})
            => \A s \in Slots \ {key(arg[t])} :
                  entries'[s] = entries[s] /\ lock'[s] = lock[s]]_vars

\* write(K2) has loaded and returned while another caller holds a write guard on
\* another slot
C10_Witness ==
    \E t, u \in Threads :
        /\ t # u
        /\ Returned(u, "write", "ok")
        /\ loads[u] = 1
        /\ \E s \in held_w(t) : s # key(arg[u]) /\ entries[s] # None

---------------------------------------------------------------------------
(* Claims about a WriteBatch, read from the record of its caller's calls *)

AllFs == {"peek", "push_mod"}

\* events j .. i of the record hold no flush_all: they belong to one batch
SameBatch(j, i) == \A m \in j .. i : hist[m].op # "flush_all"

\* the value the events before event i left in slot s
SlotVal(i, s) ==
    LET J == {j \in 1 .. (i - 1) : hist[j].slot = s /\ hist[j].kind = "ok" /\ hist[j].val # None}
    IN  IF J = {} THEN None ELSE hist[Latest(J)].val

\* the successful WriteBatch::write calls on the key of event i earlier in its batch
EarlierWrites(i) ==
    {j \in 1 .. (i - 1) : /\ hist[j].op = "batch_write"
                          /\ hist[j].kind = "ok"
                          /\ hist[j].key = hist[i].key
                          /\ SameBatch(j, i)}

\* C11: in one batch the first write(K, f) takes the guard through Cache::write, with at
\* most one load; every later write(K, f) applies f to the accumulated value, loads
\* nothing and is never held up; the batch never holds two guards on a slot.
C11_BatchGuardReuse ==
    /\ \A i \in 1 .. Len(hist) :
          LET e == hist[i]
              P == EarlierWrites(i)
          IN  (e.op = "batch_write" /\ e.kind = "ok")
              => IF P = {}
                 THEN /\ e.loads <= 1
                      /\ e.count = CountBefore(i) + e.loads
                      /\ \E f \in AllFs :
                            e.val = Some(apply_f(f, IF e.loads = 1
                                                    THEN TestStrategy_load(e.key)
                                                    ELSE unwrap(SlotVal(i, e.slot))))
                 ELSE /\ e.loads = 0
                      /\ e.count = CountBefore(i)
                      /\ \E f \in AllFs :
                            e.val = Some(apply_f(f, unwrap(hist[Latest(P)].val)))
    /\ \A t \in Threads :
          /\ \A k \in batch[t] :
                /\ lock[key(k)].w
                /\ \A j \in batch[t] : key(j) = key(k) => j = k
                /\ (pc[t] = "idle" /\ Len(hist) < MaxHist) => ENABLED batch_write_occupied(t, k)
          /\ (op[t] = "batch_write" /\ pc[t] # "returned") => arg[t] \notin batch[t]

\* the calls of test_grouped_flush: read(1), then writes on key 1, key 2, key 1 again
C11_Witness ==
    /\ Len(hist) = 4
    /\ [i \in 1 .. 4 |-> hist[i].op] = <<"read", "batch_write", "batch_write", "batch_write">>
    /\ [i \in 1 .. 4 |-> hist[i].key] = <<1, 1, 2, 1>>
    /\ [i \in 1 .. 4 |-> hist[i].count] = <<1, 1, 2, 2>>
    /\ hist[2].val = Some(push_str_mod(TestStrategy_load(1)))
    /\ hist[4].val = hist[2].val
    /\ hist[3].val = Some(push_str_mod(TestStrategy_load(2)))

\* the events of the batch that the flush_all of event i consumed
BatchOf(i) ==
    LET F == {j \in 1 .. (i - 1) : hist[j].op = "flush_all"}
    IN  ((IF F = {} THEN 0 ELSE Latest(F)) + 1) .. (i - 1)

\* the keys the batch of the flush_all of event i had written
Written(i) == {hist[j].key : j \in {m \in BatchOf(i) : hist[m].op = "batch_write" /\ hist[m].kind = "ok"}}

\* the sink's invocations that returned Ok in the flush_all of event i
Sunk(i) == {j \in BatchOf(i) : hist[j].op = "sink"}

\* C12: a flush_all whose sink never fails hands the sink each written key once, with the
\* key's accumulated value; then the batch is empty, its locks are free, the values are
\* in the cache, and a read of such a key returns the value without loading.
C12_FlushDelivers ==
    /\ \A i \in 1 .. Len(hist) :
          (hist[i].op = "flush_all" /\ hist[i].kind = "ok")
          => /\ \A k \in Written(i) : Cardinality({j \in Sunk(i) : hist[j].key = k}) = 1
             /\ \A j \in Sunk(i) :
                   LET w == {m \in BatchOf(i) : /\ hist[m].op = "batch_write"
                                                /\ hist[m].kind = "ok"
                                                /\ hist[m].key = hist[j].key}
                   IN  /\ w # {}
                       /\ Latest(w) < j
                       /\ hist[j].val = hist[Latest(w)].val
    /\ \A t \in Threads :
          Returned(t, "flush_all", "ok")
          => /\ batch[t] = {} /\ drain[t] = {} /\ ~wb[t]
             /\ \A s \in Slots : ~lock[s].w /\ ~lock[s].p
             /\ \A j \in Sunk(Len(hist)) : entries[hist[j].slot] = hist[j].val
    /\ \A i \in 1 .. Len(hist) :
          LET e == hist[i]
              J == {j \in 1 .. (i - 1) : hist[j].slot = e.slot /\ hist[j].kind = "ok"}
          IN  ( /\ e.op = "read"
                /\ e.kind = "ok"
                /\ J # {}
                /\ hist[Latest(J)].op = "sink"
                /\ hist[Latest(J)].key = e.key )
              => /\ e.loads = 0
                 /\ e.count = CountBefore(i)
                 /\ e.val = hist[Latest(J)].val

\* the flush of test_grouped_flush: keys 1 and 2 written, key 1 twice, and both values
\* reach the sink
C12_Witness ==
    /\ Len(hist) = 6
    /\ Returned("t1", "flush_all", "ok")
    /\ [i \in 1 .. 3 |-> hist[i].key] = <<1, 2, 1>>
    /\ {hist[4].val, hist[5].val} = {Some(push_str_mod(TestStrategy_load(1))),
                                     Some(push_str_mod(TestStrategy_load(2)))}
    /\ hist[4].op = "sink" /\ hist[5].op = "sink"


\* the last successful WriteBatch::write on key k in the batch of the flush_all of event i
LastWrite(i, k) ==
    Latest({m \in BatchOf(i) : hist[m].op = "batch_write" /\ hist[m].kind = "ok" /\ hist[m].key = k})

\* C14: a flush_all whose sink fails returns the sink's error; the sink gets no further
\* guard; what was written stays in the cache, delivered or not; and when flush_all has
\* returned no lock of the batch is held, so that a later read finds the written value.
C14_FlushFailure ==
    /\ \A i \in 1 .. Len(hist) :
          (hist[i].op = "flush_all" /\ hist[i].kind = "err")
          => /\ Cardinality(Sunk(i)) < Cardinality(Written(i))
             /\ \A j \in Sunk(i) :
                   /\ hist[j].key \in Written(i)
                   /\ \A m \in Sunk(i) : hist[m].key = hist[j].key => m = j
             /\ \E k \in Written(i) \ {hist[j].key : j \in Sunk(i)} :
                   hist[i].val = hist[LastWrite(i, k)].val
    /\ \A j \in 1 .. Len(hist) :
          hist[j].op = "sink"
          => \E m \in 1 .. (j - 1) : /\ hist[m].op = "batch_write"
                                     /\ hist[m].kind = "ok"
                                     /\ hist[m].key = hist[j].key
                                     /\ SameBatch(m, j)
    /\ \A t \in Threads :
          Returned(t, "flush_all", "err")
          => /\ result[t].err \in Errs
             /\ batch[t] = {} /\ drain[t] = {} /\ ~wb[t]
             /\ \A s \in Slots : ~lock[s].w /\ ~lock[s].p
             /\ \A k \in Written(Len(hist)) :
                   entries[key(k)] = hist[LastWrite(Len(hist), k)].val
    /\ \A i \in 1 .. Len(hist) :
          LET e == hist[i]
              J == {j \in 1 .. (i - 1) : hist[j].slot = e.slot /\ hist[j].kind = "ok"}
          IN  ( /\ e.op = "read"
                /\ e.kind = "ok"
                /\ J # {}
                /\ hist[Latest(J)].op = "batch_write"
                /\ hist[Latest(J)].key = e.key )
              => /\ e.loads = 0
                 /\ e.val = hist[Latest(J)].val

\* two keys written, one delivered, the sink fails on the other
C14_Witness ==
    /\ Len(hist) = 4
    /\ Returned("t1", "flush_all", "err")
    /\ hist[1].op = "batch_write" /\ hist[2].op = "batch_write" /\ hist[3].op = "sink"
    /\ hist[1].key # hist[2].key
    /\ hist[3].val = Some(push_str_mod(TestStrategy_load(hist[3].key)))

---------------------------------------------------------------------------
(* Claims about a WriteBatch among concurrent callers *)

C15_BatchLoadFailure ==
    [][\A t \in Threads :
          ( /\ pc[t] # "returned"
            /\ pc'[t] = "returned"
            /\ op[t] = "batch_write"
            /\ result'[t].kind = "err" )
          => LET s == key(arg[t]) IN
             /\ ~ret[t].ok
             /\ result'[t].err = ret[t].err
             /\ loads'[t] = 1
             /\ entries' = entries
             /\ entries'[s] = snap[t]
             /\ ~lock'[s].w /\ ~lock'[s].p
             /\ wb'[t]
             /\ batch'[t] = batch[t]
             /\ arg[t] \notin batch'[t]
             /\ \A k \in batch'[t] : lock'[key(k)].w /\ entries'[key(k)] # None]_vars

\* the load for key 2 has failed in a batch that holds the guard of key 1, modified
C15_Witness ==
    \E t \in Threads :
        /\ Returned(t, "batch_write", "err")
        /\ \E k \in batch[t] :
              /\ k # arg[t]
              /\ lock[key(k)].w
              /\ entries[key(k)] = Some(push_str_mod(TestStrategy_load(k)))
        /\ ~lock[key(arg[t])].w


\* a WriteBatch::write waits for a slot on which its own batch holds a guard, for
\* another key
SelfBlocked(t) ==
    /\ op[t] = "batch_write"
    /\ pc[t] = "w_lock"
    /\ \E k \in batch[t] : k # arg[t] /\ key(k) = key(arg[t])

\* C18: a WriteBatch::write for a key that collides with a key of its own batch waits for
\* the slot's lock, which only its own batch can release: the caller can take no step,
\* and stays so for ever.
C18_SelfDeadlock ==
    /\ [](\A t \in Threads : SelfBlocked(t) => (lock[key(arg[t])].w /\ ~ENABLED Step(t)))
    /\ [][\A t \in Threads : SelfBlocked(t) => SelfBlocked(t)']_vars

\* the batch holds key 1 and its write for key 5 is waiting
C18_Witness ==
    \E t \in Threads :
        /\ SelfBlocked(t)
        /\ batch[t] = {1}
        /\ arg[t] = 5

---------------------------------------------------------------------------
(* The reload condition *)

\* C16: read and write reload exactly when the slot is empty or match_kv returns false
\* for the key and the stored value, and return the stored value without loading when
\* match_kv returns true.
C16_ReloadWhenPredicateFalse ==
    [][\A t \in Threads :
          (pc[t] \in {"r_check", "w_check"} /\ pc'[t] # pc[t])
          => LET o == entries[key(arg[t])]
                 reloads == pc'[t] \in {"r_wlock", "load_lock"}
             IN  reloads <=> (IF is_none(o) THEN TRUE ELSE ~match_kv(arg[t], unwrap(o)))]_vars

---------------------------------------------------------------------------
(* Claims about overlapping writes, read from the record of the returns *)

\* the write calls on slot s that have returned, in the order of their returns
WritesOn(s) == {i \in 1 .. Len(hist) : hist[i].op = "write" /\ hist[i].slot = s}

\* the callers inside a write on slot s
Writing(s) == {t \in Threads : op[t] = "write" /\ key(arg[t]) = s /\ pc[t] # "returned"}

\* all the calls on key(K) so far, returned or running, are write(K), and no load failed
OnlyWritesOf(K) ==
    /\ \A i \in WritesOn(key(K)) : hist[i].key = K /\ hist[i].kind = "ok"
    /\ \A t \in Writing(key(K)) : arg[t] = K /\ (pc[t] = "loaded" => ret[t].ok)

\* the loads made for slot s so far
LoadsOn(s) ==
    SumOver([i \in WritesOn(s) |-> hist[i].loads], WritesOn(s))
    + SumOver([t \in Writing(s) |-> loads[t]], Writing(s))

---------------------------------------------------------------------------
(* The locks and the guards *)

\* C19: a slot's lock is held exactly by the guards in existence, and the strategy's lock
\* exactly during one load; a call that returns an error leaves its caller with the
\* guards it had, a call that returns a guard with that one guard more, shared for read
\* and exclusive for write; a dropped guard gives its lock back.
C19_LocksFollowGuards ==
    /\ [](\A s \in Slots : /\ lock[s].r = ReadGuards(s)
                           /\ lock[s].w <=> (WriteGuards(s) = 1))
    /\ [](strategy.locked <=> (\E t \in Threads : pc[t] = "in_load"))
    /\ [][\A t \in Threads :
            /\ (pc'[t] = "returned" /\ pc[t] # "returned" /\ op[t] # "flush_all")
               => LET s == key(arg[t]) IN
                  IF result'[t].kind = "err"
                  THEN /\ rrefs'[t] = rrefs[t] /\ wrefs'[t] = wrefs[t] /\ batch'[t] = batch[t]
                       /\ ~lock'[s].w
                  ELSE /\ op[t] = "read"
                          => /\ rrefs'[t] = [rrefs[t] EXCEPT ![s] = @ + 1]
                             /\ wrefs'[t] = wrefs[t] /\ batch'[t] = batch[t]
                             /\ lock'[s].r >= 1 /\ ~lock'[s].w
                       /\ op[t] = "write"
                          => /\ wrefs'[t] = wrefs[t] \cup {s} /\ s \notin wrefs[t]
                             /\ rrefs'[t] = rrefs[t] /\ batch'[t] = batch[t]
                             /\ lock'[s].w /\ lock'[s].r = 0
            /\ (pc[t] = "idle" /\ (rrefs'[t] # rrefs[t] \/ wrefs'[t] # wrefs[t]))
               => \A x \in Slots :
                     /\ lock'[x].r = lock[x].r - (rrefs[t][x] - rrefs'[t][x])
                     /\ x \in wrefs[t] \ wrefs'[t] => (lock[x].w /\ ~lock'[x].w)]_vars

\* a write has returned an error and holds nothing, while another caller holds a ReadRef
C19_Witness ==
    \E t, u \in Threads :
        /\ t # u
        /\ Returned(t, "write", "err")
        /\ ~lock[key(arg[t])].w
        /\ Returned(u, "read", "ok")
        /\ lock[key(arg[u])].r = 1
        /\ rrefs[u][key(arg[u])] = 1
        /\ ~strategy.locked

---------------------------------------------------------------------------
(* Freedom from deadlock *)

\* the calls that have not returned
Pending == {t \in Threads : pc[t] \in {"r_lock", "r_check", "r_wlock", "r_relock", "w_lock",
                                        "w_check", "load_lock", "in_load", "loaded"}}

\* C20: when no caller owns a guard at the time it calls, the strategy's lock is asked for
\* only under the slot's exclusive lock, its one holder is inside load and asks for no
\* lock, read asks for the exclusive lock holding no shared one, and whenever a call is
\* pending some caller can go on: by a step of a pending call, or by taking a result or
\* dropping a guard.
C20_NoDeadlock ==
    /\ \A t \in Threads :
          LET s == key(arg[t]) IN
          /\ pc[t] \in {"load_lock", "in_load"} => (lock[s].w /\ LocalW(t, s))
          /\ pc[t] \in {"r_wlock", "w_lock"} => (ReadGuardsOf(t, s) = 0 /\ WriteGuardsOf(t, s) = 0)
          /\ pc[t] \in {"r_lock", "r_relock"} => WriteGuardsOf(t, s) = 0
          /\ pc[t] = "in_load" => (strategy.locked /\ \A u \in Threads \ {t} : pc[u] # "in_load")
    /\ Pending # {} => \E t \in Threads : ENABLED Proceeds(t)

\* two reads of colliding keys: one loads, the other waits for the slot
C20_Witness ==
    \E t, u \in Threads :
        /\ pc[t] = "r_wlock"
        /\ pc[u] = "in_load"
        /\ op[u] = "read"
        /\ key(arg[t]) = key(arg[u])
        /\ arg[t] # arg[u]
        /\ ~ENABLED Proceeds(t)

====
